---- MODULE Spec2Model ----
(***************************************************************************)
(* A model of the torustiq-cli host: the pipeline component lifecycle,     *)
(* the per-edge record router, the emit and termination callbacks, the     *)
(* system command thread and the interrupt handler.                        *)
(*                                                                         *)
(* Modules (plugins) are opaque: every call they may make into the host    *)
(* (emit callback, termination callback, a system message) is an action    *)
(* whose arguments are drawn from small sets, and every result they may    *)
(* return to the host is a nondeterministic choice.                        *)
(***************************************************************************)
EXTENDS Naturals, Sequences, FiniteSets

(* ------------------------------ bounds --------------------------------- *)
NumSteps == 3
NumListeners == 1
MaxRecords == 2
MaxSysMsgs == 1
MaxBusMsgs == 3
MaxFiles == 2
MaxDefSteps == 2
MaxDefListeners == 1

(* --------------------------- the topology ------------------------------ *)
\* Handles come from one counter, steps first and then listeners.
Steps == 0 .. (NumSteps - 1)
Listeners == NumSteps .. (NumSteps + NumListeners - 1)
Components == Steps \cup Listeners
\* A handle that belongs to no component (a module may pass anything).
BogusHandle == NumSteps + NumListeners
Handles == Components \cup {BogusHandle}
\* One reader thread per adjacent pair (i, i+1), named by the sending index i.
Edges == 0 .. (NumSteps - 2)
RecIds == 1 .. MaxRecords

PipelineComponentState == {"Created", "Configured", "Running", "Terminated"}
ProcessRecordResultKind == {"Ok", "ErrWrongModuleHandle", "ErrMisc"}

VARIABLES
    mainpc,       \* position of the main thread
    idx,          \* loop index of the main thread inside configure/start
    exit_code,    \* "running", "exit_0" or "exit_err"
    handlerSet,   \* the interrupt handler is installed
    IS_GRACEFUL_SHUTDOWN_REQUESTED,
    sigpc,        \* position of the signal handling thread
    interrupts,   \* number of interrupts handled so far
    PIPELINE,     \* TRUE once the pipeline singleton is registered
    plock,        \* holder of the pipeline mutex: "none", "main", "signal"
    slock,        \* steps whose mutex is held across a module call
    state,        \* component handle -> PipelineComponentState
    started,      \* components whose start call returned Ok
    SENDERS,      \* keys of the sender registry
    FREE_BUF,     \* keys of the free-function registry
    SYSTEM_MESSAGES, \* TRUE once the system message sender is set
    chan,         \* edge -> queue of records sent and not yet received
    rpc,          \* edge -> position of its reader thread
    cur,          \* edge -> record in process_record (0: none)
    sysq,         \* queue of TerminateStep(handle) messages
    sysSent,      \* number of system messages sent so far
    buspc,        \* position of the system command thread
    nextRec,      \* next fresh record id
    emitted,      \* step -> records it passed to the emit callback, in order
    delivered,    \* edge -> records passed to process_record, in order
    dropped,      \* records the emit callback returned on without sending
    freed,        \* record -> free calls issued on the original and on the clone
    lastKind,     \* edge -> result kind of its latest process_record call
    resConsumed,  \* record -> "pending", or the consumed flag process_record gave
    shutdownBySignal, \* component -> shutdown calls made by the interrupt handler
    shutdownByRouter, \* component -> shutdown calls made by reader threads
    startCalls,   \* handles on which start was invoked, in call order
    startup_error, \* "none" or the startup phase that failed
    definition,   \* the pipeline definition: handlers of steps and listeners
    module_dir,   \* the files of the module directory, in enumeration order
    createpc,     \* position inside create_pipeline
    load_result,  \* what load_libraries returned
    initialised,  \* ids of the modules whose init was called
    pipeline_result, \* what the assembly of the pipeline returned
    notified,     \* edge -> listener calls made for its latest record, in order
    configureCalls, \* configure calls made on steps: handle and role, in order
    error_component, \* the components the startup error message names as failing
    err_string    \* component -> what was done with the error string its module returned last

vars == << mainpc, idx, exit_code, handlerSet, IS_GRACEFUL_SHUTDOWN_REQUESTED,
           sigpc, interrupts, PIPELINE, plock, slock, state, started, SENDERS, FREE_BUF,
           SYSTEM_MESSAGES, chan, rpc, cur, sysq, sysSent, buspc, nextRec,
           emitted, delivered, dropped, freed, lastKind, resConsumed,
           shutdownBySignal, shutdownByRouter, startCalls, startup_error,
           definition, module_dir, createpc, load_result, initialised,
           pipeline_result, notified, configureCalls, error_component,
           err_string >>

mainVars == << mainpc, idx >>
sigVars == << handlerSet, IS_GRACEFUL_SHUTDOWN_REQUESTED, sigpc, interrupts >>
lockVars == << plock, slock >>
registryVars == << SENDERS, FREE_BUF, SYSTEM_MESSAGES >>
routerVars == << chan, rpc, cur, delivered, lastKind, resConsumed, notified >>
busVars == << sysq, sysSent, buspc >>
emitVars == << nextRec, emitted, dropped >>
callVars == << shutdownBySignal, shutdownByRouter >>
startupVars == << definition, module_dir, createpc, load_result, initialised,
                 pipeline_result >>
hostVars == << mainpc, idx, exit_code, handlerSet,
               IS_GRACEFUL_SHUTDOWN_REQUESTED, sigpc, interrupts, PIPELINE,
               plock, slock, state, started, SENDERS, FREE_BUF,
               SYSTEM_MESSAGES, chan, rpc, cur, sysq, sysSent, buspc, nextRec,
               emitted, delivered, dropped, freed, lastKind, resConsumed,
               shutdownBySignal, shutdownByRouter, startCalls, startup_error,
               notified, configureCalls, error_component, err_string >>

(* --------------------------- pure helpers ------------------------------ *)
is_terminated(st, h) == st[h] = "Terminated"

\* Variant: marking a step that is terminated already puts it back.
set_state_terminated_toggle(st, h) ==
    [st EXCEPT ![h] = IF @ = "Terminated" THEN "Configured" ELSE "Terminated"]

\* PipelineComponent::set_state_terminated.
set_state_terminated(st, h) == [st EXCEPT ![h] = "Terminated"]

\* Variant: configure returns Ok without recording the new state.
configure_state_not_set(st, h) == st

\* PipelineStep::configure / Listener::configure on success.
configure(st, h) == [st EXCEPT ![h] = "Configured"]

\* The step mutexes the lookup takes, one after the other, on its way to
\* the step with handle h (all of them when no step has that handle).
lookup_locks(h) == IF h \in Steps THEN 0 .. h ELSE Steps

\* Looks among the steps only; listeners are not searched.
get_step_by_handle_mut(h) == IF h \in Steps THEN {h} ELSE {}

\* Variant: the pipeline counts as running only while no step is terminated.
is_running_until_first_terminated(st) ==
    Cardinality({s \in Steps : is_terminated(st, s)}) < 1

\* "running" means "not all steps are terminated".
is_running(st) ==
    Cardinality({s \in Steps : is_terminated(st, s)}) < Cardinality(Steps)

\* Variant: the steps are started first, the listeners after them.
StartOrder_steps_first(i) ==
    IF i < NumSteps THEN i ELSE NumSteps + (i - NumSteps)

\* Listeners are started first, then the steps, each in its own order.
StartOrder(i) == IF i < NumListeners THEN NumSteps + i ELSE i - NumListeners

Alive == exit_code = "running"

\* Variant: the singleton is reached without mutual exclusion.
lock_pipeline_unguarded(holder) == TRUE

\* Mutex::lock on the pipeline singleton succeeds only while nobody holds it.
lock_pipeline(holder) == holder = "none"

\* The signal handling thread is between two invocations of the handler:
\* it never ran ("idle"), its graceful run found no pipeline ("no_pipeline")
\* or its graceful run is complete ("done").
HandlerIdle == sigpc \in {"idle", "no_pipeline", "done"}

(* ------------------- module loader and pipeline assembly --------------- *)
\* Module ids: handlers named by a definition and ids declared by modules.
Ids == {"a", "b", "c"}
ModuleKind == {"Pipeline", "Listener"}
\* The API version the host was compiled with, and a version that differs.
CURRENT_API_VERSION == 1
ApiVersions == {CURRENT_API_VERSION, CURRENT_API_VERSION + 1}
\* A file of the module directory: "no_library" cannot be opened as a
\* library or lacks torustiq_module_get_info (it then declares nothing),
\* "no_symbols" lacks one of the other ABI symbols.
ModuleFiles ==
    {f \in [id : Ids, kind : ModuleKind, api_version : ApiVersions,
            lib : {"ok", "no_library", "no_symbols"}] :
        f.lib = "no_library" =>
            (f.id = "a" /\ f.kind = "Pipeline"
                /\ f.api_version = CURRENT_API_VERSION)}

SeqsUpTo(S, n) == UNION {[1 .. k -> S] : k \in 0 .. n}
Range(q) == {q[i] : i \in 1 .. Len(q)}
\* The orders in which the elements of a set may be listed.
Orderings(S) == {q \in [1 .. Cardinality(S) -> S] : Range(q) = S}

\* PipelineDefinition: the handlers of the steps and of the listeners (an
\* absent listener list is an empty one).
Definitions ==
    [steps : SeqsUpTo(Ids, MaxDefSteps),
     listeners : SeqsUpTo(Ids, MaxDefListeners)]
Directories == SeqsUpTo(ModuleFiles, MaxFiles)

\* PipelineDefinition::get_module_ids_in_use: the handlers, deduplicated
\* through a HashSet (whose iteration order is not specified).
get_module_ids_in_use(def) == Range(def.steps \o def.listeners)

NoRegistry == [x \in {} |-> x]
\* HashMap::insert keyed by the module id: a later entry replaces an earlier.
insert(registry, f) ==
    [x \in DOMAIN registry \cup {f.id} |->
        IF x = f.id THEN f ELSE registry[x]]

\* LoadedLibraries::default plus the local bookkeeping of load_libraries.
EmptyLibraries ==
    [error |-> "none", pipeline |-> NoRegistry, listeners |-> NoRegistry,
     loaded_module_ids |-> << >>, bound |-> << >>]

\* Variant: the API version of the module is not looked at.
is_skipped_version_ignored(f, required) == f.id \notin Range(required)

\* A module is passed over when its API version differs from the host's or
\* when the definition does not use its id.
is_skipped(f, required) ==
    \/ f.api_version # CURRENT_API_VERSION
    \/ f.id \notin Range(required)

\* One iteration of the directory loop of load_libraries.
load_entry(f, required, acc) ==
    IF f.lib = "no_library" THEN [acc EXCEPT !.error = "ErrLibrary"]
    ELSE IF is_skipped(f, required) THEN acc
    ELSE IF f.lib = "no_symbols"
    THEN [acc EXCEPT !.error = "ErrInitModule"]
    ELSE [acc EXCEPT
            !.pipeline = IF f.kind = "Pipeline" THEN insert(@, f) ELSE @,
            !.listeners = IF f.kind = "Listener" THEN insert(@, f) ELSE @,
            !.loaded_module_ids = Append(@, f.id),
            !.bound = Append(@, f)]

\* The directory loop: it ends at the first error.
RECURSIVE enumerate(_, _, _)
enumerate(dir, required, acc) ==
    IF dir = << >> \/ acc.error # "none" THEN acc
    ELSE enumerate(Tail(dir), required, load_entry(Head(dir), required, acc))

\* Variant: only the first missing id is reported.
missing_module_ids_first_only(required, loaded) ==
    LET all == SelectSeq(required, LAMBDA id : id \notin Range(loaded))
    IN  IF all = << >> THEN << >> ELSE << Head(all) >>

\* The required ids that were not loaded, in the order of required ids.
missing_module_ids(required, loaded) ==
    SelectSeq(required, LAMBDA id : id \notin Range(loaded))

\* load_libraries(module_dir, required_module_ids).
load_libraries(dir, required) ==
    LET acc == enumerate(dir, required, EmptyLibraries)
        missing == missing_module_ids(required, acc.loaded_module_ids)
    IN  IF acc.error # "none"
        THEN [kind |-> acc.error, missing |-> << >>,
              pipeline |-> NoRegistry, listeners |-> NoRegistry,
              bound |-> acc.bound]
        ELSE IF Len(missing) > 0
        THEN [kind |-> "ErrMissing", missing |-> missing,
              pipeline |-> NoRegistry, listeners |-> NoRegistry,
              bound |-> acc.bound]
        ELSE [kind |-> "Ok", missing |-> << >>,
              pipeline |-> acc.pipeline, listeners |-> acc.listeners,
              bound |-> acc.bound]

\* Variant: a pipeline of a single step passes the validation.
validate_one_step(steps_len) == ~ (steps_len < 1)

\* Pipeline::validate: Ok unless there are fewer than two steps.
validate(steps_len) == ~ (steps_len < 2)

\* Variant: the listeners' handles are counted from zero again.
listener_first_handle_restarted(steps_len) == 0

\* The value of step_index when the listeners are built: one per step.
listener_first_handle(steps_len) == steps_len

\* The handles step_index yields for n components in a row.
assign_handles(n, first) == [i \in 1 .. n |-> first + (i - 1)]

NoPipeline(kind, msg, handler) ==
    [kind |-> kind, msg |-> msg, handler |-> handler,
     steps |-> << >>, listeners |-> << >>]

\* TryFrom<(&PipelineDefinition, &LoadedLibraries)> for Pipeline: the step
\* handlers are looked up (first absent one -> Err), the steps and then the
\* listeners are built (an absent listener handler -> unwrap on None, a
\* panic), and the result is validated.
try_from(def, libs) ==
    LET absent == {i \in 1 .. Len(def.steps) :
                      def.steps[i] \notin DOMAIN libs.pipeline}
        first_absent == CHOOSE i \in absent : \A j \in absent : i <= j
    IN  IF absent # {}
        THEN NoPipeline("Err", "Module not found", def.steps[first_absent])
        ELSE IF \E i \in 1 .. Len(def.listeners) :
                    def.listeners[i] \notin DOMAIN libs.listeners
        THEN NoPipeline("Panic", "unwrap on a None value", "")
        ELSE IF ~ validate(Len(def.steps))
        THEN NoPipeline("Err", "Pipeline must have at least two steps", "")
        ELSE [kind |-> "Ok", msg |-> "", handler |-> "",
              steps |-> assign_handles(Len(def.steps), 0),
              listeners |-> assign_handles(Len(def.listeners),
                               listener_first_handle(Len(def.steps)))]

NoLoadResult ==
    [kind |-> "none", missing |-> << >>, pipeline |-> NoRegistry,
     listeners |-> NoRegistry, bound |-> << >>]
NoPipelineResult == NoPipeline("none", "", "")

HostInit ==
    /\ mainpc = "init_signal_handler"
    /\ idx = 0
    /\ exit_code = "running"
    /\ handlerSet = FALSE
    /\ IS_GRACEFUL_SHUTDOWN_REQUESTED = FALSE
    /\ sigpc = "idle"
    /\ interrupts = 0
    /\ PIPELINE = FALSE
    /\ plock = "none"
    /\ slock = {}
    /\ state = [c \in Components |-> "Created"]
    /\ started = {}
    /\ SENDERS = {}
    /\ FREE_BUF = {}
    /\ SYSTEM_MESSAGES = FALSE
    /\ chan = [e \in Edges |-> << >>]
    /\ rpc = [e \in Edges |-> "unborn"]
    /\ cur = [e \in Edges |-> 0]
    /\ sysq = << >>
    /\ sysSent = 0
    /\ buspc = "unborn"
    /\ nextRec = 1
    /\ emitted = [s \in Steps |-> << >>]
    /\ delivered = [e \in Edges |-> << >>]
    /\ dropped = {}
    /\ freed = [r \in RecIds |-> [orig |-> << >>, clone |-> << >>]]
    /\ lastKind = [e \in Edges |-> "none"]
    /\ resConsumed = [r \in RecIds |-> "pending"]
    /\ shutdownBySignal = [c \in Components |-> 0]
    /\ shutdownByRouter = [c \in Components |-> 0]
    /\ startCalls = << >>
    /\ startup_error = "none"
    /\ notified = [e \in Edges |-> << >>]
    /\ configureCalls = << >>
    /\ error_component = {}
    /\ err_string = [c \in Components |-> << >>]

\* The run of the host on a valid definition of NumSteps steps and
\* NumListeners listeners; create_pipeline stands for its loading and assembly.
Init ==
    /\ HostInit
    /\ definition = [steps |-> [i \in 1 .. NumSteps |-> "a"],
                     listeners |-> [i \in 1 .. NumListeners |-> "b"]]
    /\ module_dir =
          << [id |-> "a", kind |-> "Pipeline",
              api_version |-> CURRENT_API_VERSION, lib |-> "ok"],
             [id |-> "b", kind |-> "Listener",
              api_version |-> CURRENT_API_VERSION, lib |-> "ok"] >>
    /\ createpc = "idle"
    /\ load_result = NoLoadResult
    /\ initialised = {}
    /\ pipeline_result = NoPipelineResult

(* ---------------------------- main thread ------------------------------ *)
\* main: init_signal_handler() or crash_with_message.
init_signal_handler ==
    /\ Alive /\ mainpc = "init_signal_handler"
    /\ \E ok \in BOOLEAN :
         IF ok
         THEN /\ handlerSet' = TRUE
              /\ mainpc' = "create_pipeline"
              /\ exit_code' = exit_code /\ startup_error' = startup_error
         ELSE /\ handlerSet' = handlerSet
              /\ mainpc' = "exited"
              /\ exit_code' = "exit_err" /\ startup_error' = "init_signal_handler"
    /\ UNCHANGED << idx, IS_GRACEFUL_SHUTDOWN_REQUESTED, sigpc, interrupts,
                    PIPELINE, lockVars, state, started, registryVars, routerVars,
                    busVars, emitVars, freed, callVars,
                    startCalls, startupVars,
                    configureCalls, error_component, err_string >>

\* main: takes the pipeline lock, loads the modules, assembles the pipeline
\* and stores it in the singleton; a load or assembly error ends the process.
create_pipeline ==
    /\ Alive /\ mainpc = "create_pipeline"
    /\ \E ok \in BOOLEAN :
         IF ok
         THEN /\ PIPELINE' = TRUE
              /\ plock' = "main"
              /\ mainpc' = "configure_steps"
              /\ exit_code' = exit_code /\ startup_error' = startup_error
         ELSE /\ PIPELINE' = PIPELINE
              /\ plock' = plock
              /\ mainpc' = "exited"
              /\ exit_code' = "exit_err" /\ startup_error' = "create_pipeline"
    /\ idx' = 0
    /\ UNCHANGED << sigVars, slock, state, started, registryVars, routerVars,
                    busVars, emitVars, freed, callVars,
                    startCalls, startupVars,
                    configureCalls, error_component, err_string >>

\* Variant: the string is released through the record-free entry point.
free_c_char_as_record(h) == [op |-> "free_record", module |-> h]

\* (self.free_char_ptr)(e): the string is released through the string-free
\* entry point of the module of component h, the one that returned it.
free_c_char(h) == [op |-> "free_char", module |-> h]

\* The module wrappers on ErrorMisc(e) from configure or start: the text is
\* copied, the pointer released, and the copy returned as the error.
wrapper_error_string(h) ==
    << [op |-> "cchar_to_string", module |-> h],
       free_c_char(h),
       [op |-> "return_err", module |-> h] >>

\* The reader on ErrMisc(cerr, _) from process_record of step h: the text is
\* copied and logged, the pointer released, and then the listeners are told.
reader_error_string(h) ==
    << [op |-> "cchar_to_string", module |-> h],
       [op |-> "log", module |-> h],
       free_c_char(h),
       [op |-> "on_record_error", module |-> h] >>

\* What the module's configure function may answer for a step.
ModulePipelineConfigureFnResult ==
    {"Ok", "ErrorKindNotSupported", "ErrorMultipleStepsNotSupported",
     "ErrorMisc"}

\* PipelineModule::configure turns an error answer into a message: the two
\* host-made texts carry the handle of the step, ErrorMisc is the module's
\* own text and nothing is added to it.
PipelineModule_configure_names(result, h) ==
    IF result \in {"ErrorKindNotSupported", "ErrorMultipleStepsNotSupported"}
    THEN {h}
    ELSE {}

\* Variant: the step before the last one is taken for the last.
PipelineModuleKind_last_off_by_one(step_index, last_step_index) ==
    IF 0 = step_index THEN "Source"
    ELSE IF last_step_index = step_index + 1 THEN "Destination"
    ELSE "Transformation"

\* The role a step is configured with, from its position alone.
PipelineModuleKind(step_index, last_step_index) ==
    IF 0 = step_index THEN "Source"
    ELSE IF last_step_index = step_index THEN "Destination"
    ELSE "Transformation"

\* One iteration of the loop of Pipeline::configure_steps: the step at
\* position idx gets its parameters and is configured with its role; the
\* module answers Ok or an error, and an error is returned as it is.
configure_steps ==
    /\ Alive /\ mainpc = "configure_steps" /\ plock = "main"
    /\ idx \in Steps
    /\ configureCalls' =
          Append(configureCalls,
                 [handle |-> idx,
                  kind |-> PipelineModuleKind(idx, NumSteps - 1)])
    /\ \E result \in ModulePipelineConfigureFnResult :
         IF result = "Ok"
         THEN /\ state' = configure(state, idx)
              /\ IF idx = NumSteps - 1
                 THEN mainpc' = "configure_listeners" /\ idx' = 0
                 ELSE mainpc' = mainpc /\ idx' = idx + 1
              /\ exit_code' = exit_code /\ startup_error' = startup_error
              /\ error_component' = error_component
              /\ err_string' = err_string
         ELSE /\ state' = state
              /\ mainpc' = "exited" /\ idx' = idx
              /\ exit_code' = "exit_err" /\ startup_error' = "configure_steps"
              /\ error_component' = PipelineModule_configure_names(result, idx)
              /\ err_string' = IF result = "ErrorMisc"
                               THEN [err_string EXCEPT
                                        ![idx] = wrapper_error_string(idx)]
                               ELSE err_string
    /\ UNCHANGED << sigVars, PIPELINE, lockVars, started, registryVars,
                    routerVars, busVars, emitVars, freed, callVars,
                    startCalls, startupVars >>

\* One iteration of the loop of Pipeline::configure_listeners.
configure_listeners ==
    /\ Alive /\ mainpc = "configure_listeners" /\ plock = "main"
    /\ IF idx = NumListeners
       THEN /\ mainpc' = "start_senders_receivers"
            /\ UNCHANGED << idx, state, exit_code, startup_error, err_string >>
       ELSE \E ok \in BOOLEAN :
              IF ok
              THEN /\ state' = configure(state, NumSteps + idx)
                   /\ idx' = idx + 1
                   /\ UNCHANGED << mainpc, exit_code, startup_error,
                                   err_string >>
              ELSE /\ mainpc' = "exited"
                   /\ exit_code' = "exit_err" /\ startup_error' = "configure_listeners"
                   /\ err_string' = [err_string EXCEPT
                         ![NumSteps + idx] = wrapper_error_string(NumSteps + idx)]
                   /\ UNCHANGED << idx, state >>
    /\ UNCHANGED << sigVars, PIPELINE, lockVars, started, registryVars,
                    routerVars, busVars, emitVars, freed, callVars,
                    startCalls, startupVars,
                    configureCalls, error_component >>

\* Variant: a sender is registered for the last step as well.
sender_positions_all_steps(steps_len) == 0 .. (steps_len - 1)

\* for i in 0..self.steps.len() - 1: the positions of the sending steps.
sender_positions(steps_len) == 0 .. (steps_len - 2)

\* Pipeline::start_senders_receivers: the system message channel and its
\* thread, then per edge the free function, the sender and the reader thread.
start_senders_receivers ==
    /\ Alive /\ mainpc = "start_senders_receivers" /\ plock = "main"
    /\ IF SYSTEM_MESSAGES
       THEN /\ mainpc' = "exited" /\ exit_code' = "exit_err" /\ startup_error' = "start_senders_receivers"
            /\ UNCHANGED << idx, registryVars, rpc, buspc >>
       ELSE /\ SYSTEM_MESSAGES' = TRUE
            /\ buspc' = "run"
            /\ FREE_BUF' = FREE_BUF \cup sender_positions(NumSteps)
            /\ SENDERS' = SENDERS \cup sender_positions(NumSteps)
            /\ rpc' = [e \in Edges |->
                         IF e \in sender_positions(NumSteps)
                         THEN "recv" ELSE rpc[e]]
            /\ mainpc' = "start_steps" /\ idx' = 0
            /\ exit_code' = exit_code /\ startup_error' = startup_error
    /\ UNCHANGED << sigVars, PIPELINE, lockVars, state, started, chan, cur,
                    delivered, lastKind, resConsumed, notified, sysq, sysSent, emitVars,
                    freed, callVars,
                    startCalls, startupVars,
                    configureCalls, error_component, err_string >>

\* One iteration of the loops of Pipeline::start_steps (listeners, then
\* steps); after the last one the main thread releases the pipeline lock.
start_steps ==
    /\ Alive /\ mainpc = "start_steps" /\ plock = "main"
    /\ idx < NumListeners + NumSteps
    /\ \E ok \in BOOLEAN :
         IF ok
         THEN /\ started' = started \cup {StartOrder(idx)}
              /\ startCalls' = Append(startCalls, StartOrder(idx))
              /\ idx' = idx + 1
              /\ IF idx + 1 = NumListeners + NumSteps
                 THEN mainpc' = "poll" /\ plock' = "none"
                 ELSE mainpc' = mainpc /\ plock' = plock
              /\ exit_code' = exit_code /\ startup_error' = startup_error
              /\ error_component' = error_component
              /\ err_string' = err_string
         ELSE /\ started' = started /\ idx' = idx
              /\ startCalls' = Append(startCalls, StartOrder(idx))
              /\ mainpc' = "exited" /\ plock' = plock
              /\ exit_code' = "exit_err" /\ startup_error' = "start_steps"
              /\ error_component' = {StartOrder(idx)}
              /\ err_string' = [err_string EXCEPT
                    ![StartOrder(idx)] = wrapper_error_string(StartOrder(idx))]
    /\ UNCHANGED << sigVars, PIPELINE, slock, state, registryVars, routerVars,
                    busVars, emitVars, freed, callVars,
                    startupVars, configureCalls >>

\* main: polls is_running() under the pipeline lock and leaves once false.
main_poll ==
    /\ Alive /\ mainpc = "poll" /\ lock_pipeline(plock) /\ slock = {}
    /\ ~ is_running(state)
    /\ mainpc' = "exited"
    /\ exit_code' = "exit_0"
    /\ UNCHANGED << idx, sigVars, PIPELINE, lockVars, state, started,
                    registryVars, routerVars, busVars, emitVars, freed,
                    callVars,
                    startup_error, startCalls, startupVars,
                    configureCalls, error_component, err_string >>

(* -------------------------- interrupt handler -------------------------- *)
\* Variant: shutdown is called on every step of the pipeline.
trigger_termination_all_steps(calls) ==
    [c \in Components |-> IF c \in Steps THEN calls[c] + 1 ELSE calls[c]]

\* Pipeline::trigger_termination: shutdown is called on the first step, and
\* on no other component, while the pipeline and that step are locked.
trigger_termination(calls) == [calls EXCEPT ![0] = @ + 1]

\* An OS interrupt is handled by the closure of init_signal_handler. The
\* handling thread runs one invocation at a time.
\* First interrupt: the flag is stored, then the singleton is looked up; it
\* is either missing (return) or the handler goes on to lock it.
interrupt_graceful ==
    /\ Alive /\ handlerSet /\ HandlerIdle
    /\ IS_GRACEFUL_SHUTDOWN_REQUESTED = FALSE
    /\ IS_GRACEFUL_SHUTDOWN_REQUESTED' = TRUE
    /\ interrupts' = interrupts + 1
    /\ sigpc' = IF PIPELINE THEN "lock_pipeline" ELSE "no_pipeline"
    /\ UNCHANGED << mainVars, exit_code, handlerSet, PIPELINE, lockVars,
                    state, started, registryVars, routerVars, busVars,
                    emitVars, freed, callVars,
                    startup_error, startCalls, startupVars,
                    configureCalls, error_component, err_string >>

\* Variant: the forced path leaves the process alive while steps still run.
force_shutdown_when_finished(st) ==
    IF is_running(st) THEN "running" ELSE "exit_err"

\* What the handler does once a graceful shutdown had been requested
\* already: exit(-1), whatever the components' states.
force_shutdown(st) == "exit_err"

\* Further interrupt: the flag is already set.
interrupt_force ==
    /\ Alive /\ handlerSet /\ HandlerIdle
    /\ IS_GRACEFUL_SHUTDOWN_REQUESTED = TRUE
    /\ interrupts' = interrupts + 1
    /\ exit_code' = force_shutdown(state)
    /\ UNCHANGED << mainVars, handlerSet, IS_GRACEFUL_SHUTDOWN_REQUESTED,
                    sigpc, PIPELINE, lockVars, state, started, registryVars,
                    routerVars, busVars, emitVars, freed, callVars,
                    startup_error, startCalls, startupVars,
                    configureCalls, error_component, err_string >>

\* The handler obtains the pipeline lock and the first step's lock and
\* enters the module's shutdown.
handler_trigger_termination ==
    /\ Alive /\ sigpc = "lock_pipeline"
    /\ lock_pipeline(plock) /\ 0 \notin slock
    /\ plock' = "signal"
    /\ slock' = slock \cup {0}
    /\ shutdownBySignal' = trigger_termination(shutdownBySignal)
    /\ sigpc' = "in_shutdown"
    /\ UNCHANGED << mainVars, exit_code, handlerSet,
                    IS_GRACEFUL_SHUTDOWN_REQUESTED, interrupts, PIPELINE, state, started,
                    registryVars, routerVars, busVars, emitVars, freed,
                    shutdownByRouter,
                    startup_error, startCalls, startupVars,
                    configureCalls, error_component, err_string >>

\* The module, inside the shutdown call the handler made, invokes the
\* termination callback on the calling thread. on_step_terminate_cb begins
\* with a lock of the pipeline singleton, which this very thread holds: the
\* lock call does not return, and the guards of the handler stay as they are.
shutdown_calls_back ==
    /\ Alive /\ sigpc = "in_shutdown"
    /\ sigpc' = "in_callback"
    /\ UNCHANGED << mainVars, exit_code, handlerSet,
                    IS_GRACEFUL_SHUTDOWN_REQUESTED, interrupts, PIPELINE,
                    lockVars, state, started, registryVars, routerVars,
                    busVars, emitVars, freed, callVars,
                    startup_error, startCalls, startupVars,
                    configureCalls, error_component, err_string >>

\* The module's shutdown returns; the guards are dropped.
handler_return ==
    /\ Alive /\ sigpc = "in_shutdown"
    /\ plock' = "none"
    /\ slock' = slock \ {0}
    /\ sigpc' = "done"
    /\ UNCHANGED << mainVars, exit_code, handlerSet,
                    IS_GRACEFUL_SHUTDOWN_REQUESTED, interrupts, PIPELINE, state, started,
                    registryVars, routerVars, busVars, emitVars, freed,
                    callVars,
                    startup_error, startCalls, startupVars,
                    configureCalls, error_component, err_string >>

(* ------------------------ callbacks (module side) ---------------------- *)
\* The module libraries receive the callbacks when they are initialised,
\* which create_pipeline does: from then on a module may call them.
ModulesInitialised == mainpc \notin {"init_signal_handler", "create_pipeline"}

\* on_rcv_cb(record, step_handle): no sender -> return; send of the clone
\* failed (the reader has gone) -> return; else the original is released
\* through the free function registered for that handle.
on_rcv_cb(h) ==
    /\ Alive /\ ModulesInitialised
    /\ nextRec <= MaxRecords
    /\ LET r == nextRec IN
       /\ nextRec' = r + 1
       /\ emitted' = [emitted EXCEPT ![h] = Append(@, r)]
       /\ IF h \notin SENDERS
          THEN /\ dropped' = dropped \cup {r}
               /\ UNCHANGED << chan, freed >>
          ELSE IF rpc[h] = "done"
          THEN /\ dropped' = dropped \cup {r}
               /\ UNCHANGED << chan, freed >>
          ELSE /\ chan' = [chan EXCEPT ![h] = Append(@, r)]
               /\ freed' = [freed EXCEPT ![r].orig = Append(@, "FREE_BUF")]
               /\ dropped' = dropped
    /\ UNCHANGED << mainVars, exit_code, sigVars, PIPELINE, lockVars, state,
                    started, registryVars, rpc, cur, delivered, lastKind,
                    resConsumed, notified, busVars, callVars,
                    startup_error, startCalls, startupVars,
                    configureCalls, error_component, err_string >>

\* on_step_terminate_cb(step_handle): singleton missing -> return; the
\* pipeline is locked, the step looked up and marked terminated.
on_step_terminate_cb(h) ==
    /\ Alive /\ ModulesInitialised
    /\ PIPELINE
    /\ lock_pipeline(plock)
    /\ lookup_locks(h) \cap slock = {}
    /\ state' = IF get_step_by_handle_mut(h) # {}
                THEN set_state_terminated(state, h)
                ELSE state
    /\ UNCHANGED << mainVars, exit_code, sigVars, PIPELINE, lockVars,
                    started, registryVars, routerVars, busVars, emitVars,
                    freed, callVars,
                    startup_error, startCalls, startupVars,
                    configureCalls, error_component, err_string >>

\* A TerminateStep(handle) message is put on the system message channel,
\* as long as fewer than n were sent.
send_system_message_upto(h, n) ==
    /\ Alive /\ ModulesInitialised
    /\ SYSTEM_MESSAGES
    /\ sysSent < n
    /\ sysq' = Append(sysq, h)
    /\ sysSent' = sysSent + 1
    /\ UNCHANGED << mainVars, exit_code, sigVars, PIPELINE, lockVars, state,
                    started, registryVars, routerVars, buspc, emitVars,
                    freed, callVars,
                    startup_error, startCalls, startupVars,
                    configureCalls, error_component, err_string >>

\* The messages of a whole run of the host: at most MaxSysMsgs of them.
send_system_message(h) ==
    /\ h \in Handles
    /\ send_system_message_upto(h, MaxSysMsgs)

(* ------------------------ system command thread ------------------------ *)
\* start_system_command_thread: a TerminateStep(handle) is received; the
\* pipeline is locked; an unknown handle ends the thread, a step's handle
\* marks the step terminated.
system_command_thread ==
    /\ Alive /\ buspc = "run"
    /\ sysq # << >>
    /\ PIPELINE /\ lock_pipeline(plock)
    /\ LET h == Head(sysq) IN
       /\ lookup_locks(h) \cap slock = {}
       /\ sysq' = Tail(sysq)
       /\ IF get_step_by_handle_mut(h) = {}
          THEN buspc' = "returned" /\ state' = state
          ELSE buspc' = buspc /\ state' = set_state_terminated(state, h)
    /\ UNCHANGED << mainVars, exit_code, sigVars, PIPELINE, lockVars,
                    started, registryVars, chan, rpc, cur, delivered,
                    lastKind, resConsumed, notified, sysSent, emitVars, freed, callVars,
                    startup_error, startCalls, startupVars,
                    configureCalls, error_component, err_string >>

(* ---------------------------- reader threads --------------------------- *)
\* Variant: the reader frees the record whatever process_record reported.
free_contents_always(f, r, consumed) ==
    [f EXCEPT ![r].clone = Append(@, "free_contents")]

\* What the reader does with a record that was not consumed.
free_contents(f, r, consumed) ==
    IF consumed THEN f ELSE [f EXCEPT ![r].clone = Append(@, "free_contents")]

\* Where the reader goes once process_record has returned: every arm of the
\* match falls through to the end of the loop body.
after_process_record(kind) == "recv"

\* One listener call per listener, in the order of the listeners, with the
\* handle of the receiving step of the edge.
notify_listeners(fn, e, r) ==
    [i \in 1 .. NumListeners |->
        [fn |-> fn, listener |-> NumSteps + i - 1, handle |-> e + 1,
         record |-> r]]

\* Variant: the listeners are told of a success whatever the result was.
record_outcome_always_sent(kind) == "on_record_sent"

\* The listener function called once process_record has returned.
record_outcome(kind) ==
    IF kind = "Ok" THEN "on_record_sent" ELSE "on_record_error"

\* recv_timeout returned a record: listeners are told, then the record goes
\* into process_record of the receiving step.
reader_receive(e) ==
    /\ Alive /\ rpc[e] = "recv"
    /\ chan[e] # << >>
    /\ LET r == Head(chan[e]) IN
       /\ chan' = [chan EXCEPT ![e] = Tail(@)]
       /\ cur' = [cur EXCEPT ![e] = r]
       /\ delivered' = [delivered EXCEPT ![e] = Append(@, r)]
       /\ notified' = [notified EXCEPT
                         ![e] = notify_listeners("on_record_received", e, r)]
    /\ rpc' = [rpc EXCEPT ![e] = "process_record"]
    /\ UNCHANGED << mainVars, exit_code, sigVars, PIPELINE, lockVars, state,
                    started, registryVars, lastKind, resConsumed, busVars,
                    emitVars, freed, callVars,
                    startup_error, startCalls, startupVars,
                    configureCalls, error_component, err_string >>

\* process_record returned: listeners are told of success or error, the
\* record is freed unless it was consumed, and the loop goes on.
reader_process_result(e) ==
    /\ Alive /\ rpc[e] = "process_record"
    /\ \E kind \in ProcessRecordResultKind, is_consumed \in BOOLEAN :
         /\ lastKind' = [lastKind EXCEPT ![e] = kind]
         /\ resConsumed' = [resConsumed EXCEPT ![cur[e]] = IF is_consumed THEN "yes" ELSE "no"]
         /\ freed' = free_contents(freed, cur[e], is_consumed)
         /\ rpc' = [rpc EXCEPT ![e] = after_process_record(kind)]
         /\ notified' = [notified EXCEPT
                           ![e] = @ \o notify_listeners(record_outcome(kind),
                                                       e, cur[e])]
         /\ err_string' = [err_string EXCEPT
                             ![e + 1] = IF kind = "ErrMisc"
                                        THEN reader_error_string(e + 1)
                                        ELSE << >>]
    /\ cur' = [cur EXCEPT ![e] = 0]
    /\ UNCHANGED << mainVars, exit_code, sigVars, PIPELINE, lockVars, state,
                    started, registryVars, chan, delivered, busVars,
                    emitVars, callVars,
                    startup_error, startCalls, startupVars,
                    configureCalls, error_component >>

\* recv_timeout returned Err: no record was in the channel for the whole
\* wait. The state of the sending step is looked at afterwards.
reader_recv_timeout(e) ==
    /\ Alive /\ rpc[e] = "recv"
    /\ chan[e] = << >>
    /\ rpc' = [rpc EXCEPT ![e] = "timed_out"]
    /\ UNCHANGED << mainVars, exit_code, sigVars, PIPELINE, lockVars, state,
                    started, registryVars, chan, cur, delivered, lastKind,
                    resConsumed, notified, busVars, emitVars, freed, callVars,
                    startup_error, startCalls, startupVars,
                    configureCalls, error_component, err_string >>

\* Variant: the reader looks at the state of the receiving step.
reader_may_break_receiver(e) == is_terminated(state, e + 1)

\* Variant: the reader leaves its loop on any timeout.
reader_may_break_on_any_timeout(e) == TRUE

\* After a timeout the reader leaves its loop when the sending step is
\* terminated.
reader_may_break(e) == is_terminated(state, e)

\* After the timeout the reader locks the sending step and reads its state:
\* terminated -> it leaves the loop, calls shutdown on the receiving step
\* and ends; otherwise it goes back to receive.
reader_timeout(e) ==
    /\ Alive /\ rpc[e] = "timed_out"
    /\ e \notin slock
    /\ IF reader_may_break(e)
       THEN /\ rpc' = [rpc EXCEPT ![e] = "done"]
            /\ shutdownByRouter' = [shutdownByRouter EXCEPT ![e + 1] = @ + 1]
       ELSE /\ rpc' = [rpc EXCEPT ![e] = "recv"]
            /\ shutdownByRouter' = shutdownByRouter
    /\ UNCHANGED << mainVars, exit_code, sigVars, PIPELINE, lockVars, state,
                    started, registryVars, chan, cur, delivered, lastKind,
                    resConsumed, notified, busVars, emitVars, freed, shutdownBySignal,
                    startup_error, startCalls, startupVars,
                    configureCalls, error_component, err_string >>

(* --------------------------- specification ----------------------------- *)
Next ==
    \/ init_signal_handler
    \/ create_pipeline
    \/ configure_steps
    \/ configure_listeners
    \/ start_senders_receivers
    \/ start_steps
    \/ main_poll
    \/ interrupt_graceful
    \/ interrupt_force
    \/ handler_trigger_termination
    \/ shutdown_calls_back
    \/ handler_return
    \/ \E h \in Steps : on_rcv_cb(h)
    \/ \E h \in Handles : on_step_terminate_cb(h)
    \/ \E h \in Handles : send_system_message(h)
    \/ system_command_thread
    \/ \E e \in Edges : reader_receive(e)
    \/ \E e \in Edges : reader_process_result(e)
    \/ \E e \in Edges : reader_recv_timeout(e)
    \/ \E e \in Edges : reader_timeout(e)

Spec == Init /\ [][Next]_vars

(* ------------- runs with well-behaved modules, fair scheduling --------- *)
\* A module signals termination for its own step only: the source once it
\* was started (it decides itself when its output ends) or after its
\* shutdown was invoked, any other step after its shutdown was invoked.
MaySignalTermination(h) ==
    \/ h = 0 /\ 0 \in started
    \/ shutdownBySignal[h] + shutdownByRouter[h] > 0

\* A module emits records only between the start of its step and the
\* termination of that step.
module_emits(h) ==
    /\ h \in started /\ ~ is_terminated(state, h)
    /\ on_rcv_cb(h)

module_signals_termination(h) ==
    /\ MaySignalTermination(h)
    /\ on_step_terminate_cb(h)

module_sends_termination(h) ==
    /\ MaySignalTermination(h)
    /\ send_system_message(h)

\* No forced exit: the interrupt is not repeated.
LiveNext ==
    \/ init_signal_handler
    \/ create_pipeline
    \/ configure_steps
    \/ configure_listeners
    \/ start_senders_receivers
    \/ start_steps
    \/ main_poll
    \/ interrupt_graceful
    \/ handler_trigger_termination
    \/ handler_return
    \/ \E h \in Steps : module_emits(h)
    \/ \E h \in Steps : module_signals_termination(h)
    \/ \E h \in Steps : module_sends_termination(h)
    \/ system_command_thread
    \/ \E e \in Edges : reader_receive(e)
    \/ \E e \in Edges : reader_process_result(e)
    \/ \E e \in Edges : reader_recv_timeout(e)
    \/ \E e \in Edges : reader_timeout(e)

\* Every host thread keeps running, every module call returns, and a step
\* whose shutdown was invoked does signal its termination.
LiveFairness ==
    /\ WF_vars(handler_trigger_termination)
    /\ WF_vars(handler_return)
    /\ WF_vars(system_command_thread)
    /\ \A e \in Edges :
         /\ WF_vars(reader_receive(e))
         /\ WF_vars(reader_process_result(e))
         /\ WF_vars(reader_recv_timeout(e))
         /\ WF_vars(reader_timeout(e))
    /\ \A h \in Steps \ {0} : WF_vars(module_signals_termination(h))

LiveSpec == Init /\ [][LiveNext]_vars /\ LiveFairness

(* ------------------- the command bus of a started pipeline ------------ *)
\* The state in which the startup leaves the host: every component
\* configured and started, the channels, registries and threads in place,
\* the main thread polling.
BusInit ==
    /\ mainpc = "poll"
    /\ idx = NumListeners + NumSteps
    /\ exit_code = "running"
    /\ handlerSet = TRUE
    /\ IS_GRACEFUL_SHUTDOWN_REQUESTED = FALSE
    /\ sigpc = "idle"
    /\ interrupts = 0
    /\ PIPELINE = TRUE
    /\ plock = "none"
    /\ slock = {}
    /\ state = [c \in Components |-> "Configured"]
    /\ started = Components
    /\ SENDERS = sender_positions(NumSteps)
    /\ FREE_BUF = sender_positions(NumSteps)
    /\ SYSTEM_MESSAGES = TRUE
    /\ chan = [e \in Edges |-> << >>]
    /\ rpc = [e \in Edges |-> "recv"]
    /\ cur = [e \in Edges |-> 0]
    /\ sysq = << >>
    /\ sysSent = 0
    /\ buspc = "run"
    /\ nextRec = 1
    /\ emitted = [s \in Steps |-> << >>]
    /\ delivered = [e \in Edges |-> << >>]
    /\ dropped = {}
    /\ freed = [r \in RecIds |-> [orig |-> << >>, clone |-> << >>]]
    /\ lastKind = [e \in Edges |-> "none"]
    /\ resConsumed = [r \in RecIds |-> "pending"]
    /\ shutdownBySignal = [c \in Components |-> 0]
    /\ shutdownByRouter = [c \in Components |-> 0]
    /\ startCalls = [i \in 1 .. (NumListeners + NumSteps) |->
                        StartOrder(i - 1)]
    /\ startup_error = "none"
    /\ notified = [e \in Edges |-> << >>]
    /\ configureCalls =
          [i \in 1 .. NumSteps |->
              [handle |-> i - 1,
               kind |-> PipelineModuleKind(i - 1, NumSteps - 1)]]
    /\ error_component = {}
    /\ err_string = [c \in Components |-> << >>]
    /\ definition = [steps |-> [i \in 1 .. NumSteps |-> "a"],
                     listeners |-> [i \in 1 .. NumListeners |-> "b"]]
    /\ module_dir =
          << [id |-> "a", kind |-> "Pipeline",
              api_version |-> CURRENT_API_VERSION, lib |-> "ok"],
             [id |-> "b", kind |-> "Listener",
              api_version |-> CURRENT_API_VERSION, lib |-> "ok"] >>
    /\ createpc = "idle"
    /\ load_result = NoLoadResult
    /\ initialised = {}
    /\ pipeline_result = NoPipelineResult

\* The bus and its consumer, with the interrupt handler and the poll of the
\* main thread beside them; up to MaxBusMsgs messages are sent.
BusNext ==
    \/ \E h \in Handles : send_system_message_upto(h, MaxBusMsgs)
    \/ system_command_thread
    \/ interrupt_graceful
    \/ handler_trigger_termination
    \/ handler_return
    \/ main_poll

BusSpec == BusInit /\ [][BusNext]_vars

(* --------------- create_pipeline: loading and assembly ----------------- *)
\* Any definition and any module directory within the bounds.
StartupInit ==
    /\ HostInit
    /\ definition \in Definitions
    /\ module_dir \in Directories
    /\ createpc = "load_libraries"
    /\ load_result = NoLoadResult
    /\ initialised = {}
    /\ pipeline_result = NoPipelineResult

\* The modules the definition uses are loaded; an error ends the startup.
main_load_libraries ==
    /\ createpc = "load_libraries"
    /\ \E required \in Orderings(get_module_ids_in_use(definition)) :
         LET result == load_libraries(module_dir, required) IN
         /\ load_result' = result
         /\ createpc' = IF result.kind = "Ok" THEN "init" ELSE "failed"
    /\ UNCHANGED << definition, module_dir, initialised, pipeline_result,
                    hostVars >>

\* LoadedLibraries::init: init is called on every registered module.
main_init_libraries ==
    /\ createpc = "init"
    /\ initialised' = DOMAIN load_result.listeners
                         \cup DOMAIN load_result.pipeline
    /\ createpc' = "try_from"
    /\ UNCHANGED << definition, module_dir, load_result, pipeline_result,
                    hostVars >>

\* The pipeline is assembled from the definition and the loaded libraries.
main_try_from ==
    /\ createpc = "try_from"
    /\ LET result == try_from(definition, load_result) IN
       /\ pipeline_result' = result
       /\ createpc' = IF result.kind = "Ok" THEN "done" ELSE "failed"
    /\ UNCHANGED << definition, module_dir, load_result, initialised,
                    hostVars >>

StartupNext ==
    \/ main_load_libraries
    \/ main_init_libraries
    \/ main_try_from

StartupSpec == StartupInit /\ [][StartupNext]_vars

(* ============================== claims ================================= *)
\* Records that went through process_record and whose result is known.
Processed == {r \in RecIds : resConsumed[r] # "pending"}

\* The records of a sequence that the emit callback did send.
RECURSIVE Sent(_)
Sent(q) ==
    IF q = << >> THEN << >>
    ELSE IF Head(q) \in dropped THEN Sent(Tail(q))
    ELSE << Head(q) >> \o Sent(Tail(q))

(* C1 (as amended): for every record the reader of an edge passed to        *)
(* process_record, whatever the result kind: while the call is pending and  *)
(* when it reported consumed=true the reader has issued no free call for    *)
(* the record; when it reported consumed=false the reader has issued        *)
(* exactly one, and that call is the record's own free_contents, not the    *)
(* free function registered for the sending step.                           *)
C1_ReaderFreesUnlessConsumed ==
    \A r \in RecIds :
        freed[r].clone =
            IF resConsumed[r] = "no" THEN << "free_contents" >> ELSE << >>

\* C1 witness: all three result kinds are covered by the two edges' latest
\* calls, one record was consumed (no free call) and one was not (one call).
C1_Witness ==
    /\ \E r \in RecIds : resConsumed[r] = "yes" /\ freed[r].clone = << >>
    /\ \E r \in RecIds :
         resConsumed[r] = "no" /\ freed[r].clone = << "free_contents" >>
    /\ \E e \in Edges : lastKind[e] \in {"ErrWrongModuleHandle", "ErrMisc"}

(* C1 (original statement): a record reported as not consumed gets exactly  *)
(* one free call from the reader and that call goes through the free        *)
(* function of the module that produced it (the one registered for step i). *)
C1_Original_FreedByProducer ==
    \A r \in RecIds :
        resConsumed[r] = "no" => freed[r].clone = << "FREE_BUF" >>

(* C2: on every edge the records passed to process_record are exactly the  *)
(* records the sending step emitted, in emission order and once each: once  *)
(* the reader of an edge has ended, no record that the emit callback sent   *)
(* on that edge is missing from the records passed to process_record.       *)
C2_NoSentRecordLost ==
    \A e \in Edges : rpc[e] = "done" => delivered[e] = Sent(emitted[e])

(* C9: every record instance a step passed to the emit callback has had     *)
(* exactly one deallocation call once the callback has returned, in each    *)
(* of its outcomes (sent, send failed, no sender registered).               *)
C9_OneFreePerEmittedRecord ==
    \A r \in RecIds : r < nextRec => Len(freed[r].orig) = 1

AllStepsTerminated == \A s \in Steps : is_terminated(state, s)

(* C3: under fair scheduling and with well-behaved modules, once the source *)
(* step is marked Terminated, eventually every step is Terminated and       *)
(* is_running() is false.                                                   *)
C3_CascadeTerminates ==
    is_terminated(state, 0) ~> (AllStepsTerminated /\ ~ is_running(state))

\* C3 witness: the cascade ran to its end through the readers: every step
\* is Terminated and each reader has shut its receiving step down.
C3_Witness ==
    /\ AllStepsTerminated /\ ~ is_running(state)
    /\ \A e \in Edges : rpc[e] = "done" /\ shutdownByRouter[e + 1] = 1

(* C4: along any run is_running() never becomes true again once it has      *)
(* been false, so it changes from true to false at most once.               *)
C4_IsRunningFallsOnce ==
    [][(~ is_running(state)) => (~ is_running(state'))]_vars

\* C4 witness: is_running() is false while the process is still alive.
C4_Witness == Alive /\ ~ is_running(state)

(* C5 (as amended): the first interrupt makes the handler call shutdown     *)
(* exactly once on the first step when the pipeline singleton is registered *)
(* at that time, and makes it call no shutdown at all when it is not; in    *)
(* both cases no other step and no listener is shut down by the handler,    *)
(* the handler changes no component's state and the process does not exit.  *)
C5_FirstInterruptGraceful ==
    /\ [](/\ \A c \in Components \ {0} : shutdownBySignal[c] = 0
          /\ shutdownBySignal[0] =
                 IF sigpc \in {"in_shutdown", "in_callback", "done"} THEN 1 ELSE 0)
    /\ [][(sigpc' # sigpc) => (state' = state /\ exit_code' = exit_code)]_vars

\* C5 witness: the handler of the first interrupt has returned from the
\* shutdown of the first step, and the process is alive.
C5_Witness ==
    /\ sigpc = "done" /\ interrupts = 1
    /\ shutdownBySignal[0] = 1
    /\ Alive

(* C5 (original statement): once the handler of the first interrupt has     *)
(* returned, exactly one shutdown call has been made on the first step.     *)
C5_Original_AlwaysOneShutdown ==
    (IS_GRACEFUL_SHUTDOWN_REQUESTED /\ HandlerIdle) => shutdownBySignal[0] = 1

Rank(v) ==
    CASE v = "Created" -> 0
      [] v = "Configured" -> 1
      [] v = "Running" -> 2
      [] v = "Terminated" -> 3

(* C7: a component's state only moves forward along                         *)
(* Created -> Configured -> Running -> Terminated: no step of any thread    *)
(* lowers it, no component leaves Terminated.                               *)
C7_StateMovesForward ==
    [][\A c \in Components : Rank(state[c]) <= Rank(state'[c])]_vars

\* C7 witness: after startup one step is Terminated while another is still
\* Configured.
C7_Witness ==
    /\ mainpc = "poll"
    /\ \E a, b \in Steps : state[a] = "Terminated" /\ state[b] = "Configured"

(* C8: when start_steps returns success every listener and every step is    *)
(* in state Running.                                                        *)
C8_RunningAfterStart ==
    [][(mainpc = "start_steps" /\ mainpc' = "poll")
          => \A c \in Components : state'[c] = "Running"]_vars

(* C10: when configure_steps has returned success every step is Configured  *)
(* and none is Terminated.                                                  *)
C10_ConfiguredAfterConfigureSteps ==
    mainpc = "configure_listeners" =>
        \A s \in Steps : state[s] = "Configured"

\* C10 witness: configure_steps has just returned success.
C10_Witness ==
    /\ mainpc = "configure_listeners" /\ idx = 0
    /\ \A s \in Steps : state[s] = "Configured"

\* The handlers a definition names that are not registered under the kind
\* they are used as.
AbsentHandlers ==
    {h \in Range(definition.steps) : h \notin DOMAIN load_result.pipeline}
        \cup {h \in Range(definition.listeners) :
                 h \notin DOMAIN load_result.listeners}

Assembled == pipeline_result.kind # "none"

C15_HandlesFromOneCounter ==
    pipeline_result.kind = "Ok" =>
        LET hs == pipeline_result.steps \o pipeline_result.listeners IN
        /\ Len(pipeline_result.steps) = Len(definition.steps)
        /\ Len(pipeline_result.listeners) = Len(definition.listeners)
        /\ \A i \in 1 .. Len(hs) : hs[i] = i - 1
        /\ \A i, j \in 1 .. Len(hs) : i < j => hs[i] < hs[j]

\* C15 witness: a pipeline of two steps and a listener was assembled.
C15_Witness ==
    /\ pipeline_result.kind = "Ok"
    /\ Len(pipeline_result.steps) = 2
    /\ Len(pipeline_result.listeners) = 1

(* C16 (as amended): the assembly of a definition with fewer than two steps *)
(* never produces a Pipeline and calls into no module; it fails with the    *)
(* error "Pipeline must have at least two steps" when every handler the     *)
(* definition names is registered under the kind it is used as, and fails   *)
(* on the unresolved handler, before the steps are counted, when one is not.*)
C16_TooFewStepsNeverAssembles ==
    /\ []((Assembled /\ Len(definition.steps) < 2) =>
            /\ pipeline_result.kind \in {"Err", "Panic"}
            /\ pipeline_result.steps = << >>
            /\ pipeline_result.listeners = << >>
            /\ (AbsentHandlers = {}) <=>
                   (/\ pipeline_result.kind = "Err"
                    /\ pipeline_result.msg
                          = "Pipeline must have at least two steps"))
    /\ [][(createpc = "try_from") => (initialised' = initialised)]_vars

\* C16 witness: a definition of one step whose handler is registered was
\* refused for its number of steps.
C16_Witness ==
    /\ Len(definition.steps) = 1 /\ AbsentHandlers = {}
    /\ pipeline_result.kind = "Err"
    /\ pipeline_result.msg = "Pipeline must have at least two steps"

(* C16 (original statement): the assembly of a definition with fewer than   *)
(* two steps fails with the error "Pipeline must have at least two steps".  *)
C16_Original_AlwaysTwoStepsError ==
    (Assembled /\ Len(definition.steps) < 2) =>
        /\ pipeline_result.kind = "Err"
        /\ pipeline_result.msg = "Pipeline must have at least two steps"

\* The enumeration of the directory ran to its end (no file failed to open
\* or to bind).
EnumerationCompleted == load_result.kind \in {"Ok", "ErrMissing"}

\* The required ids for which the directory holds no module of the host's
\* API version: absent, or present with another version only.
NotLoaded ==
    {id \in get_module_ids_in_use(definition) :
        \A i \in 1 .. Len(module_dir) :
            module_dir[i].id = id =>
                module_dir[i].api_version # CURRENT_API_VERSION}

(* C17: when the enumeration of the module directory is over and some       *)
(* required id was not loaded (absent, or skipped for its API version),     *)
(* load returns one error that lists every missing id, each once, and no    *)
(* other id; no module is initialised and no pipeline is assembled.         *)
C17_MissingIdsListed ==
    (EnumerationCompleted /\ NotLoaded # {}) =>
        /\ load_result.kind = "ErrMissing"
        /\ Range(load_result.missing) = NotLoaded
        /\ Len(load_result.missing) = Cardinality(NotLoaded)
        /\ createpc = "failed"
        /\ initialised = {}
        /\ pipeline_result.kind = "none"

\* C17 witness: of three required ids one was loaded, one is absent from the
\* directory and one was skipped for its API version; the two are listed.
C17_Witness ==
    /\ load_result.kind = "ErrMissing"
    /\ Cardinality(get_module_ids_in_use(definition)) = 3
    /\ Len(load_result.missing) = 2
    /\ \E i \in 1 .. Len(module_dir) :
          /\ module_dir[i].id \in Range(load_result.missing)
          /\ module_dir[i].api_version # CURRENT_API_VERSION
    /\ \E id \in Range(load_result.missing) :
          \A i \in 1 .. Len(module_dir) : module_dir[i].id # id

(* C18: when load succeeds the two registries together hold exactly the     *)
(* required ids; every registered module has the host's API version, is     *)
(* filed under its own id and in the registry of the kind it declares; and  *)
(* no module with an id that is not required or with another API version    *)
(* was bound or registered.                                                 *)
C18_RegistriesHoldExactlyRequired ==
    load_result.kind = "Ok" =>
        /\ DOMAIN load_result.pipeline \cup DOMAIN load_result.listeners
              = get_module_ids_in_use(definition)
        /\ \A id \in DOMAIN load_result.pipeline :
              /\ load_result.pipeline[id].id = id
              /\ load_result.pipeline[id].kind = "Pipeline"
              /\ load_result.pipeline[id].api_version = CURRENT_API_VERSION
              /\ load_result.pipeline[id] \in Range(module_dir)
        /\ \A id \in DOMAIN load_result.listeners :
              /\ load_result.listeners[id].id = id
              /\ load_result.listeners[id].kind = "Listener"
              /\ load_result.listeners[id].api_version = CURRENT_API_VERSION
              /\ load_result.listeners[id] \in Range(module_dir)
        /\ \A f \in Range(load_result.bound) :
              /\ f.id \in get_module_ids_in_use(definition)
              /\ f.api_version = CURRENT_API_VERSION

\* C18 witness: a load succeeded, registering a pipeline module, while the
\* directory also held a module that was passed over.
C18_Witness ==
    /\ load_result.kind = "Ok"
    /\ DOMAIN load_result.pipeline # {}
    /\ \E i \in 1 .. Len(module_dir) :
          /\ module_dir[i].lib # "no_library"
          /\ \/ module_dir[i].id \notin get_module_ids_in_use(definition)
             \/ module_dir[i].api_version # CURRENT_API_VERSION

StartFailed == startup_error = "start_steps"

(* C12: listeners are started before steps: a step's start is invoked only  *)
(* after every listener's start has returned Ok; listeners are started in   *)
(* registration order and steps in pipeline order, each once; when the      *)
(* start of a component fails, no start call is made on a later component.  *)
C12_ListenersStartFirst ==
    /\ [](/\ \A i \in 1 .. Len(startCalls) :
               startCalls[i] \in Steps =>
                   \A l \in Listeners :
                       /\ l \in started
                       /\ \E j \in 1 .. (i - 1) : startCalls[j] = l
          /\ \A i, j \in 1 .. Len(startCalls) :
               (i < j /\ (startCalls[i] \in Steps <=> startCalls[j] \in Steps))
                   => startCalls[i] < startCalls[j]
          /\ \A i \in 1 .. Len(startCalls) :
               startCalls[i] \notin started
                   => (i = Len(startCalls) /\ StartFailed)
          /\ StartFailed => startCalls[Len(startCalls)] \notin started)
    /\ [][StartFailed => startCalls' = startCalls]_vars

\* C12 witness: the listener and the first step were started, the start of
\* the second step failed, and the third step was never started.
C12_Witness ==
    /\ StartFailed
    /\ startCalls = << NumSteps, 0, 1 >>
    /\ started = {NumSteps, 0}

ErrKinds == {"ErrWrongModuleHandle", "ErrMisc"}

(* C14: once process_record has returned ErrWrongHandle or ErrMisc for a    *)
(* record of an edge, every record emitted later on that edge is delivered  *)
(* to process_record: none is dropped by the emit callback and none is left *)
(* in the queue by a router that has exited.                                *)
C14_Original_LaterRecordsDelivered ==
    \A e \in Edges : \A r1, r2 \in RecIds :
        (/\ lastKind[e] \in ErrKinds
         /\ Len(delivered[e]) > 0 /\ r1 = delivered[e][Len(delivered[e])]
         /\ resConsumed[r1] # "pending"
         /\ r2 \in Range(emitted[e]) /\ r2 > r1)
        => /\ r2 \notin dropped
           /\ rpc[e] = "done" => r2 \in Range(delivered[e])

C20_OnlyBusWritesTerminated ==
    [][(\E c \in Components :
            state'[c] = "Terminated" /\ state[c] # "Terminated")
        => (Len(sysq') < Len(sysq))]_vars

(* C21: no call into a module is made while the calling host thread holds  *)
(* a host lock: while the interrupt handler is inside the shutdown call of  *)
(* the first step it holds neither the pipeline lock nor that step's lock.  *)
C21_NoModuleCallUnderLock ==
    sigpc = "in_shutdown" => (plock # "signal" /\ 0 \notin slock)

(* C22: a state change or state read of one component never waits for the   *)
(* lock of another component: while some other component's lock is held, a  *)
(* router that timed out can read the state of its sending step, and the    *)
(* command thread can handle the TerminateStep(h) at the head of the bus,   *)
(* as soon as the lock of the component concerned is free.                  *)
C22_NoWaitOnOtherComponentsLock ==
    /\ \A e \in Edges :
         (Alive /\ rpc[e] = "timed_out" /\ slock # {} /\ e \notin slock)
            => ENABLED reader_timeout(e)
    /\ (/\ Alive /\ buspc = "run" /\ PIPELINE
        /\ sysq # << >> /\ Head(sysq) \in Steps
        /\ slock # {} /\ Head(sysq) \notin slock)
          => ENABLED system_command_thread

(* C23: the router of edge (i, i+1) calls shutdown on step i+1 exactly once *)
(* and then ends for good, and it does so only from a timed-out receive     *)
(* with step i Terminated; while step i is not Terminated the router has    *)
(* not ended and has not called that shutdown. Routers call shutdown on no  *)
(* other component.                                                         *)
C23_RouterShutsDownOnceAfterTimeout ==
    /\ [](/\ \A e \in Edges :
               /\ shutdownByRouter[e + 1] = IF rpc[e] = "done" THEN 1 ELSE 0
               /\ rpc[e] = "done" => is_terminated(state, e)
          /\ \A c \in Components \ {e + 1 : e \in Edges} :
               shutdownByRouter[c] = 0)
    /\ [][\A e \in Edges :
            /\ (rpc[e] # "done" /\ rpc'[e] = "done")
                  => (rpc[e] = "timed_out" /\ is_terminated(state, e))
            /\ rpc[e] = "done" => rpc'[e] = "done"
            /\ shutdownByRouter'[e + 1] # shutdownByRouter[e + 1]
                  => (rpc[e] # "done" /\ rpc'[e] = "done")]_vars

\* C23 witness: a router that delivered a record has ended and has called
\* shutdown on its receiving step once, while a later router still runs.
C23_Witness ==
    \E e \in Edges :
        /\ rpc[e] = "done" /\ shutdownByRouter[e + 1] = 1
        /\ delivered[e] # << >>
        /\ \E e2 \in Edges : e2 > e /\ rpc[e2] = "recv"

\* The listener function that tells of the result kind.
OutcomeOf(kind) == IF kind = "Ok" THEN "on_record_sent" ELSE "on_record_error"

(* C24: for every record of every edge (i, i+1) every listener gets         *)
(* on_record_received with handle i+1 before process_record is called, and  *)
(* after process_record returned every listener gets exactly one of         *)
(* on_record_sent (result Ok) or on_record_error (any error result); the    *)
(* calls made for one record are complete before those of the next begin.   *)
C24_ListenerNotificationsOrdered ==
    /\ [](\A e \in Edges :
            /\ delivered[e] = << >> => notified[e] = << >>
            /\ rpc[e] = "process_record"
                  => notified[e] =
                        notify_listeners("on_record_received", e, cur[e])
            /\ (rpc[e] # "process_record" /\ delivered[e] # << >>)
                  => LET r == delivered[e][Len(delivered[e])] IN
                     notified[e] =
                        notify_listeners("on_record_received", e, r)
                           \o notify_listeners(OutcomeOf(lastKind[e]), e, r))
    /\ [][\A e \in Edges :
            notified'[e] # notified[e] =>
               \/ /\ rpc[e] = "recv" /\ rpc'[e] = "process_record"
                  /\ Len(notified[e]) \in {0, 2 * NumListeners}
                  /\ cur'[e] = Head(chan[e])
                  /\ \A i \in 1 .. Len(notified[e]) :
                        notified[e][i].record # cur'[e]
               \/ /\ rpc[e] = "process_record" /\ rpc'[e] # "process_record"
                  /\ Len(notified[e]) = NumListeners
                  /\ Len(notified'[e]) = 2 * NumListeners
                  /\ \A i \in 1 .. NumListeners :
                        notified'[e][i] = notified[e][i]]_vars

\* C24 witness: on one edge the second record went through process_record
\* and was reported to the listeners as an error after it had been reported
\* as received.
C24_Witness ==
    \E e \in Edges :
        /\ Len(delivered[e]) = 2 /\ rpc[e] = "recv"
        /\ Len(notified[e]) = 2 * NumListeners
        /\ notified[e][1].fn = "on_record_received"
        /\ notified[e][1].record = delivered[e][2]
        /\ notified[e][2 * NumListeners].fn = "on_record_error"

(* C25: with modules that signal the termination of a step other than the   *)
(* source only after its shutdown was invoked, the Terminated steps are a   *)
(* prefix of the chain at every moment (step i+1 is Terminated only if step *)
(* i is) and the routers call shutdown in increasing step order (step i+2   *)
(* is shut down by its router only after step i+1 was).                     *)
C25_TerminationIsAPrefix ==
    /\ \A e \in Edges : is_terminated(state, e + 1) => is_terminated(state, e)
    /\ \A e \in Edges :
         (e + 1 \in Edges /\ shutdownByRouter[e + 2] > 0)
            => shutdownByRouter[e + 1] > 0

\* C25 witness: the cascade is half way: the first two steps are Terminated
\* after the router's shutdown call on the second, the last step is not.
C25_Witness ==
    /\ is_terminated(state, 0) /\ is_terminated(state, 1)
    /\ shutdownByRouter[1] = 1
    /\ ~ is_terminated(state, NumSteps - 1)

(* C26: for every handle h of a component, step or listener, the            *)
(* TerminateStep(h) the command thread takes off the bus leaves that        *)
(* component marked Terminated.                                             *)
C26_TerminateStepMarksComponent ==
    [][(Len(sysq') < Len(sysq) /\ Head(sysq) \in Components)
        => state'[Head(sysq)] = "Terminated"]_vars

(* C27: with well-behaved modules, once is_running() is false every         *)
(* component, listener as well as step, is Terminated.                      *)
C27_AllComponentsTerminated ==
    ~ is_running(state) => \A c \in Components : is_terminated(state, c)

\* The step handlers without a Pipeline-kind module, the listener handlers
\* without a Listener-kind module.
UnresolvedStepHandlers ==
    {h \in Range(definition.steps) : h \notin DOMAIN load_result.pipeline}
UnresolvedListenerHandlers ==
    {h \in Range(definition.listeners) :
        h \notin DOMAIN load_result.listeners}

(* C28: a step handler that resolves to no Pipeline-kind module and a       *)
(* listener handler that resolves to no Listener-kind module make the       *)
(* assembly return the error "Module not found" for that handler; the       *)
(* assembly neither crashes nor returns a pipeline.                         *)
C28_WrongKindIsModuleNotFound ==
    Assembled =>
        /\ UnresolvedStepHandlers # {} =>
              /\ pipeline_result.kind = "Err"
              /\ pipeline_result.msg = "Module not found"
              /\ pipeline_result.handler \in UnresolvedStepHandlers
        /\ (UnresolvedStepHandlers = {} /\ UnresolvedListenerHandlers # {}) =>
              /\ pipeline_result.kind = "Err"
              /\ pipeline_result.msg = "Module not found"
              /\ pipeline_result.handler \in UnresolvedListenerHandlers

(* C29: when the configure call of the step at position k fails, the error  *)
(* configure_steps returns names step k, the steps before k are Configured, *)
(* step k and the later ones are still Created, and no configure call was   *)
(* made on a later step.                                                    *)
C29_ConfigureFailureNamesStep ==
    startup_error = "configure_steps" =>
        /\ error_component = {idx}
        /\ \A s \in Steps :
              state[s] = IF s < idx THEN "Configured" ELSE "Created"
        /\ Len(configureCalls) = idx + 1
        /\ \A i \in 1 .. Len(configureCalls) : configureCalls[i].handle = i - 1

\* configure_steps has returned Ok.
ConfigureStepsDone ==
    \/ mainpc \in {"configure_listeners", "start_senders_receivers",
                   "start_steps", "poll"}
    \/ startup_error \in {"configure_listeners", "start_senders_receivers",
                          "start_steps"}
    \/ exit_code = "exit_0"

(* C30: configure_steps gives the role Source to the step at position 0,    *)
(* Destination to the step at the last position and Transformation to every *)
(* step between them; once it has returned Ok, every step was configured    *)
(* once, exactly one as Source and exactly one as Destination.              *)
C30_RolesByPosition ==
    /\ \A i \in 1 .. Len(configureCalls) :
         /\ configureCalls[i].handle = i - 1
         /\ configureCalls[i].kind =
               IF i = 1 THEN "Source"
               ELSE IF i = NumSteps THEN "Destination"
               ELSE "Transformation"
    /\ ConfigureStepsDone =>
         /\ Len(configureCalls) = NumSteps
         /\ Cardinality({i \in 1 .. NumSteps :
                            configureCalls[i].kind = "Source"}) = 1
         /\ Cardinality({i \in 1 .. NumSteps :
                            configureCalls[i].kind = "Destination"}) = 1

\* C30 witness: configure_steps has just returned Ok on a pipeline that has
\* a step between the source and the destination.
C30_Witness ==
    /\ mainpc = "configure_listeners" /\ idx = 0
    /\ Len(configureCalls) = NumSteps
    /\ configureCalls[NumSteps].kind = "Destination"
    /\ \E i \in 1 .. NumSteps : configureCalls[i].kind = "Transformation"

(* C31: once start_senders_receivers has run on a pipeline of N steps there *)
(* are N-1 router threads, one per adjacent pair, and the sender registry   *)
(* and the free-function registry have the same keys, the handles of the    *)
(* steps 0..N-2: the last step has no sender. Before it there is none.      *)
C31_OneRouterAndSenderPerEdge ==
    /\ ~ SYSTEM_MESSAGES =>
          /\ SENDERS = {} /\ FREE_BUF = {}
          /\ \A e \in Edges : rpc[e] = "unborn"
    /\ SYSTEM_MESSAGES =>
          /\ SENDERS = FREE_BUF
          /\ SENDERS = Steps \ {NumSteps - 1}
          /\ {e \in Edges : rpc[e] # "unborn"} = {s \in Steps : s + 1 \in Steps}
          /\ Cardinality({e \in Edges : rpc[e] # "unborn"}) = NumSteps - 1

\* C31 witness: start_senders_receivers has just returned.
C31_Witness ==
    /\ SYSTEM_MESSAGES /\ mainpc = "start_steps" /\ idx = 0
    /\ Cardinality(SENDERS) = NumSteps - 1

\* The calls that release something, among those made for an error string.
ReleaseCalls(calls) ==
    {i \in 1 .. Len(calls) : calls[i].op \in {"free_char", "free_record"}}

C33_CallbackCompletes ==
    sigpc = "in_callback" => plock # "signal"

(* C34: the command thread handles every message: whenever a TerminateStep  *)
(* for an existing step is at the head of the bus and the locks it needs    *)
(* are free, the command thread can take it, whatever it received before.   *)
C34_ConsumerHandlesEveryMessage ==
    (/\ Alive /\ SYSTEM_MESSAGES /\ PIPELINE
     /\ sysq # << >> /\ Head(sysq) \in Steps
     /\ lock_pipeline(plock) /\ slock = {})
        => ENABLED system_command_thread

(* C35: a listener is not handed a record whose ownership has passed to the *)
(* receiving module: no on_record_sent or on_record_error call was made for *)
(* a record that process_record reported as consumed.                       *)
C35_NoNotificationAfterConsumed ==
    \A e \in Edges : \A i \in 1 .. Len(notified[e]) :
        notified[e][i].fn \in {"on_record_sent", "on_record_error"}
            => resConsumed[notified[e][i].record] # "yes"

(* C36: with steps that emit only before they are Terminated, the queue of  *)
(* edge (i, i+1) is empty when the router invokes the shutdown of step i+1: *)
(* what was queued when step i terminated has been drained.                 *)
C36_QueueDrainedBeforeShutdown ==
    \A e \in Edges : shutdownByRouter[e + 1] > 0 => chan[e] = << >>

C38_ForcedExitOnlyAfterShutdown ==
    [][(exit_code = "running" /\ exit_code' = "exit_err"
            /\ interrupts' = interrupts + 1)
        => shutdownBySignal[0] > 0]_vars

\* The number of Terminated steps, as is_running() counts them.
steps_terminated(st) == Cardinality({s \in Steps : is_terminated(st, s)})

(* C39: a TerminateStep(h) for an existing step h leaves step h Terminated  *)
(* and every other component as it was, and the command thread running;    *)
(* the count of Terminated steps rises by one, and not at all when step h   *)
(* was Terminated before (a repeated delivery changes nothing).             *)
C39_RepeatedTerminateIsIdempotent ==
    [][(Len(sysq') < Len(sysq) /\ Head(sysq) \in Steps) =>
          /\ state'[Head(sysq)] = "Terminated"
          /\ \A c \in Components \ {Head(sysq)} : state'[c] = state[c]
          /\ steps_terminated(state') =
                steps_terminated(state)
                   + (IF state[Head(sysq)] = "Terminated" THEN 0 ELSE 1)
          /\ state[Head(sysq)] = "Terminated" => state' = state
          /\ buspc' = buspc]_vars

\* C39 witness: two messages were sent and both were handled by a command
\* thread that still runs, and one step is Terminated: both named that step.
C39_Witness ==
    /\ sysSent = 2 /\ sysq = << >> /\ buspc = "run"
    /\ steps_terminated(state) = 1

====
